---- MODULE Spec2Model ----
(***************************************************************************)
(* Model of cmd/bettyfe/main.go: the front-end of the betty transparency   *)
(* log.  The process parses its key flags, makes sure a signed checkpoint  *)
(* exists under the log's root directory, constructs the storage engine    *)
(* and serves POST /add, recording each request's latency.                 *)
(*                                                                         *)
(* The checkpoint file and the engine's sequenced entries live on disk and *)
(* survive a crash; everything else is process memory and is lost.         *)
(* The signed-note codec (note.Sign, f_log.ParseCheckpoint) and the posix  *)
(* storage engine are collaborators outside main.go; they are modelled     *)
(* from their contracts.  Reads of an existing checkpoint file are taken   *)
(* to succeed; writes may fail.                                            *)
(***************************************************************************)
EXTENDS Integers, Sequences, FiniteSets, Bags

\* ------------------------------------------------------------------ bounds
\* Number of POST /add requests clients send over the life of the log.
MaxReq == 2
\* Number of times the process is started (first start plus restarts).
MaxStarts == 2

\* Number of goroutines calling l.Add beside one calling l.String.
MaxAdders == 2

Reqs == 1..MaxReq

\* Request latencies (time.Since(n)): 100ms and 300ms, in nanoseconds as
\* time.Duration counts them.
Durations == {100 * 1000000, 300 * 1000000}

\* ------------------------------------------------------------------- keys
\* A key flag value: the key's name and the identity of the key pair.  A signer
\* flag and a verifier flag with the same name and id are a matching pair.
DefaultKey == [name |-> "Test-Betty", id |-> 1]
RotatedKey == [name |-> "Test-Betty", id |-> 2]
\* A flag value note.NewSigner / note.NewVerifier reject.
InvalidKey == [name |-> "", id |-> 0]
NoKey == [name |-> "", id |-> -1]

KeyFlags == {DefaultKey, RotatedKey, InvalidKey}

\* ----------------------------------------------------------------- errors
\* An error value: where it was made and its text (the pieces of the message).
NoErr == [src |-> "nil", text |-> <<>>]
ErrNotExist == [src |-> "os", text |-> <<"open checkpoint: no such file or directory">>]
ErrWrite == [src |-> "os", text |-> <<"write checkpoint: input/output error">>]
ErrMalformed == [src |-> "note", text |-> <<"malformed note">>]
ErrUnverified == [src |-> "note", text |-> <<"note has no verifiable signatures">>]
ErrOrigin == [src |-> "f_log", text |-> <<"checkpoint for origin mismatch">>]
\* A read of the checkpoint file that fails although the file is there.
ErrRead == [src |-> "os", text |-> <<"read checkpoint: input/output error">>]
ErrSequence == [src |-> "posix", text |-> <<"sequencing failed">>]

RECURSIVE Decimal(_)
\* fmt's %d of an unsigned integer: its decimal digits.
Decimal(n) ==
    LET digit == <<"0", "1", "2", "3", "4", "5", "6", "7", "8", "9">> IN
    IF n < 10 THEN <<digit[n + 1]>>
    ELSE Decimal(n \div 10) \o <<digit[(n % 10) + 1]>>

\* fmt.Errorf(prefix + "%v", e): a new error carrying the text of e after the
\* prefix; it is not e and does not unwrap to e.
Errorf(prefix, e) == [src |-> "fmt", text |-> <<prefix>> \o e.text]

\* ------------------------------------------------------- checkpoint files
\* The root hash published at startup for the empty log: []byte("Empty").
EmptyHash == <<"Empty">>
\* The Merkle root the engine computes over the first n entries.
RootHash(n) == <<"root", n>>

\* The checkpoint file: absent, or the bytes of a signed note (a text body and
\* the key that signed it).
NoBody == [origin |-> "", size |-> 0, hash |-> <<>>]
NoFile == [exists |-> FALSE, body |-> NoBody, sig |-> NoKey]
\* Bytes that are no signed note at all.
Garbage == [exists |-> TRUE, body |-> NoBody, sig |-> NoKey]

\* cp.Marshal(): the origin, size and hash lines of the note text.
Marshal(cp) == [origin |-> cp.Origin, size |-> cp.Size, hash |-> cp.Hash]

\* note.Sign(&note.Note{Text: text}, signer): the text with signer's signature.
NoteSign(text, signer) == [exists |-> TRUE, body |-> text, sig |-> signer]

\* posix.ReadCheckpoint(path): the file's bytes, or the error of opening it.
ReadCheckpoint(file) ==
    IF file.exists THEN [b |-> file, err |-> NoErr]
    ELSE [b |-> NoFile, err |-> ErrNotExist]

\* f_log.ParseCheckpoint(b, vname, verifier): opens the note with the verifier
\* (the signature must be by the verifier's key), parses the body and checks
\* its origin against vname.
ParseCheckpoint(b, vname, verifier) ==
    IF b.sig = NoKey /\ b.body = NoBody
    THEN [Size |-> 0, Hash |-> <<>>, err |-> ErrMalformed]
    ELSE IF b.sig # verifier
    THEN [Size |-> 0, Hash |-> <<>>, err |-> ErrUnverified]
    ELSE IF b.body.origin = ""
    THEN [Size |-> 0, Hash |-> <<>>, err |-> ErrMalformed]
    ELSE IF b.body.origin # vname
    THEN [Size |-> 0, Hash |-> <<>>, err |-> ErrOrigin]
    ELSE [Size |-> b.body.size, Hash |-> b.body.hash, err |-> NoErr]

\* Variant of currentTree: the read error is returned as it is, without the
\* "ReadCheckpoint: " prefix.
currentTreeUnwrapped(file, verifier) ==
    LET rd == ReadCheckpoint(file) IN
    IF rd.err # NoErr
    THEN [size |-> 0, hash |-> <<>>, err |-> rd.err]
    ELSE LET cp == ParseCheckpoint(rd.b, verifier.name, verifier) IN
         IF cp.err # NoErr
         THEN [size |-> 0, hash |-> <<>>, err |-> cp.err]
         ELSE [size |-> cp.Size, hash |-> cp.Hash, err |-> NoErr]

\* currentTree(path, verifier)(): the closure's result for a given file.
currentTree(file, verifier) ==
    LET rd == ReadCheckpoint(file) IN
    IF rd.err # NoErr
    THEN [size |-> 0, hash |-> <<>>, err |-> Errorf("ReadCheckpoint: ", rd.err)]
    ELSE LET cp == ParseCheckpoint(rd.b, verifier.name, verifier) IN
         IF cp.err # NoErr
         THEN [size |-> 0, hash |-> <<>>, err |-> cp.err]
         ELSE [size |-> cp.Size, hash |-> cp.Hash, err |-> NoErr]

\* posix.WriteCheckpoint(path, n): replaces the file, unless the write fails.
WriteCheckpoint(file, n, writeOK) ==
    IF writeOK THEN [file |-> n, err |-> NoErr]
    ELSE [file |-> file, err |-> ErrWrite]

\* Variant of newTree: the checkpoint is built without its Size field.
newTreeSizeDropped(file, signer, size, hash, writeOK) ==
    LET cp == [Origin |-> signer.name, Size |-> 0, Hash |-> hash]
        n == NoteSign(Marshal(cp), signer)
    IN WriteCheckpoint(file, n, writeOK)

\* newTree(path, signer)(size, hash): the file after the call, and its error.
newTree(file, signer, size, hash, writeOK) ==
    LET cp == [Origin |-> signer.name, Size |-> size, Hash |-> hash]
        n == NoteSign(Marshal(cp), signer)
    IN WriteCheckpoint(file, n, writeOK)

\* ---------------------------------------------------------------- latency
\* &latency{}: the zero value.
NewLatency == [total |-> 0, n |-> 0, min |-> 0, max |-> 0]

\* Variant of Add: the count is not incremented.
AddWithoutCount(l, d) ==
    [total |-> l.total + d,
     n |-> l.n,
     min |-> IF d < l.min THEN d ELSE l.min,
     max |-> IF d > l.max THEN d ELSE l.max]

\* (*latency).Add, under the mutex.
Add(l, d) ==
    [total |-> l.total + d,
     n |-> l.n + 1,
     min |-> IF d < l.min THEN d ELSE l.min,
     max |-> IF d > l.max THEN d ELSE l.max]

\* (*latency).String, under the mutex.  The Durations given to %v stand in the
\* result as their nanosecond counts.
String(l) ==
    IF l.n = 0 THEN <<"--">>
    ELSE <<"[Mean: ", l.total \div l.n, " Min: ", l.min, " Max ", l.max, "]">>

\* ------------------------------------------------------------------ state
VARIABLES
    phase,      \* where main() is: down, started, initialised, serving, exited
    starts,     \* how many times the process has been started
    signer,     \* the -log_signer flag of this run
    verifier,   \* the -log_verifier flag of this run
    ctErr,      \* main's err from ct() at line 94
    cpFile,     \* the checkpoint file under -path (on disk)
    entries,    \* the payloads the engine has durably sequenced, by index (on disk)
    lastPub,    \* history: the last nt() call of this run, and whether it succeeded
    req,        \* per request: the handler's position, locals and response
    l,          \* the latency aggregator
    samples,    \* history: the bag of durations passed to l.Add in this run
    stats,      \* the printStats goroutine: position, lastSize, the size and err
                \* its call of s() returned, the last line it logged, and
                \* (history) the size its last successful call saw
    ctxDone,    \* whether the context given to printStats is done
    mu,         \* the aggregator's mutex: the thread holding it, or 0
    thr,        \* threads calling l.Add and l.String: position and locals
    clean       \* history: NewLatency and then, as each l.Add returns, Add applied
                \* to the value before it

statsVars == <<stats, ctxDone>>
lockVars == <<mu, thr, clean>>
vars == <<phase, starts, signer, verifier, ctErr, cpFile, entries, lastPub, req, l,
          samples, statsVars, lockVars>>

NoDiff == [wrapped |-> FALSE, v |-> 0]
\* klog.Errorf("Failed to get checkpoint: %v", err), line 170.
ErrorLine(err) ==
    [level |-> "error", size |-> 0, added |-> NoDiff, lat |-> <<>>, err |-> err]
\* klog.Infof("CP size %d (+%d); Latency: %v", size, added, l.String()), line 175.
InfoLine(size, added, lat) ==
    [level |-> "info", size |-> size, added |-> added, lat |-> lat, err |-> NoErr]
\* Nothing logged yet.
NoLine == [level |-> "none", size |-> 0, added |-> NoDiff, lat |-> <<>>, err |-> NoErr]

\* printStats's size and err outside the timer case.
NoTree == [size |-> 0, err |-> NoErr]

\* printStats before main() has started it.
StatsOff == [pc |-> "off", lastSize |-> 0, t |-> NoTree, okSize |-> -1, line |-> NoLine]
\* printStats as it enters its loop: interval set, lastSize zero.
StatsStarted == [StatsOff EXCEPT !.pc = "select"]

NoPub == [called |-> FALSE, size |-> 0, hash |-> <<>>, ok |-> FALSE]
NoResp == [status |-> 0, body |-> <<>>]
IdleReq == [pc |-> "idle", idx |-> 0, err |-> NoErr, resp |-> NoResp, calls |-> 0]

Init ==
    /\ phase = "down"
    /\ starts = 0
    /\ signer = NoKey
    /\ verifier = NoKey
    /\ ctErr = NoErr
    /\ cpFile = NoFile
    /\ entries = <<>>
    /\ lastPub = NoPub
    /\ req = [r \in Reqs |-> IdleReq]
    /\ l = NewLatency
    /\ samples = EmptyBag
    /\ stats = StatsOff
    /\ ctxDone = FALSE
    /\ mu = 0
    /\ thr = <<>>
    /\ clean = <<>>

\* ---------------------------------------------------------------- startup
\* A request the process was handling when it died: its connection is gone.
GoneReq == [IdleReq EXCEPT !.pc = "gone"]
\* The requests after the process died: those not yet sent can still be sent.
Dropped(rq) == [r \in Reqs |-> IF rq[r].pc = "idle" THEN rq[r] ELSE GoneReq]

\* keysFromFlag(): whether both flags parse (otherwise klog.Exitf).
keysFromFlag(s, v) == s # InvalidKey /\ v # InvalidKey

\* main(), lines 82-93: parse the flags, load the keys, make the root directory.
\* Invalid key material or a failing MkdirAll ends the process.
Start ==
    /\ phase \in {"down", "exited"}
    /\ starts < MaxStarts
    /\ \E s \in KeyFlags, v \in KeyFlags, mkdirOK \in BOOLEAN :
         /\ signer' = s
         /\ verifier' = v
         /\ phase' = IF keysFromFlag(s, v) /\ mkdirOK THEN "started" ELSE "exited"
    /\ starts' = starts + 1
    /\ ctErr' = NoErr
    /\ lastPub' = NoPub
    /\ l' = NewLatency
    /\ samples' = EmptyBag
    /\ UNCHANGED <<cpFile, entries, req, statsVars, lockVars>>

\* The record of an nt(size, hash) call that returned err.
Published(size, hash, err) ==
    [called |-> TRUE, size |-> size, hash |-> hash, ok |-> err = NoErr]

\* A call of the ct closure.  The read of the file may fail although the file
\* is there (readOK false); the error comes back with the prefix of line 135.
readTree(file, v, readOK) ==
    IF readOK THEN currentTree(file, v)
    ELSE [size |-> 0, hash |-> <<>>, err |-> Errorf("ReadCheckpoint: ", ErrRead)]

\* Variant of InitCheckpoint: a failing ct() is logged and nothing is published.
InitCheckpointSkipPublish ==
    /\ phase = "started"
    /\ ctErr' = currentTree(cpFile, verifier).err
    /\ phase' = "initialised"
    /\ UNCHANGED <<starts, signer, verifier, cpFile, entries, lastPub, req, l, samples, statsVars, lockVars>>

\* main(), lines 94-99: if ct() fails for any reason, publish the empty
\* checkpoint; exit if that fails.
InitCheckpoint ==
    /\ phase = "started"
    /\ \E readOK, writeOK \in BOOLEAN :
         LET ct == readTree(cpFile, verifier, readOK)
             nt == newTree(cpFile, signer, 0, EmptyHash, writeOK)
         IN /\ ctErr' = ct.err
            /\ IF ct.err # NoErr
               THEN /\ cpFile' = nt.file
                    /\ lastPub' = Published(0, EmptyHash, nt.err)
                    /\ phase' = IF nt.err # NoErr THEN "exited" ELSE "initialised"
               ELSE /\ cpFile' = cpFile
                    /\ lastPub' = lastPub
                    /\ phase' = "initialised"
    /\ UNCHANGED <<starts, signer, verifier, entries, req, l, samples, statsVars, lockVars>>

\* main(), lines 101-126: construct the storage engine and the aggregator,
\* register the handlers, start printStats and start serving.
Serve ==
    /\ phase = "initialised"
    /\ phase' = "serving"
    /\ l' = NewLatency
    /\ stats' = StatsStarted
    /\ UNCHANGED <<starts, signer, verifier, ctErr, cpFile, entries, lastPub, req, samples,
                   ctxDone, lockVars>>

\* The process dies (crash or kill): its memory is lost, the disk stays.
Crash ==
    /\ phase \in {"started", "initialised", "serving"}
    /\ phase' = "down"
    /\ signer' = NoKey
    /\ verifier' = NoKey
    /\ ctErr' = NoErr
    /\ lastPub' = NoPub
    /\ req' = Dropped(req)
    /\ l' = NewLatency
    /\ samples' = EmptyBag
    /\ stats' = StatsOff
    /\ ctxDone' = FALSE
    /\ UNCHANGED <<starts, cpFile, entries, lockVars>>

\* While the process is not running, the checkpoint file is damaged: its bytes
\* become unparsable, or its signature is lost while the text stays.
Corrupt ==
    /\ phase \in {"down", "exited"}
    /\ cpFile.exists
    /\ \E damaged \in {Garbage, [cpFile EXCEPT !.sig = NoKey]} :
         /\ damaged # cpFile
         /\ cpFile' = damaged
    /\ UNCHANGED <<phase, starts, signer, verifier, ctErr, entries, lastPub, req, l, samples, statsVars, lockVars>>

\* ----------------------------------------------------------- POST /add
\* Lines 105-113: note the start time, register the deferred l.Add, read the
\* body; a failed read answers 500 with no body and returns.
ReadBody(r) ==
    /\ phase = "serving"
    /\ req[r].pc = "idle"
    /\ \E readOK \in BOOLEAN :
         req' = [req EXCEPT ![r] =
                   IF readOK THEN [@ EXCEPT !.pc = "seq"]
                   ELSE [@ EXCEPT !.pc = "defer",
                                  !.resp = [status |-> 500, body |-> <<>>]]]
    /\ UNCHANGED <<phase, starts, signer, verifier, ctErr, cpFile, entries, lastPub, l, samples, statsVars, lockVars>>

\* Storage.Sequence: on success the payload is durably assigned the next
\* index; on failure nothing is committed.
Sequence(log, b, ok) ==
    IF ok THEN [idx |-> Len(log), err |-> NoErr, entries |-> Append(log, b)]
    ELSE [idx |-> 0, err |-> ErrSequence, entries |-> log]

\* The body of request r.
Payload(r) == r

\* Variant of CallSequence: idx is one variable shared by all handlers, so the
\* call overwrites the index of every request that has not answered yet.
CallSequenceSharedIdx(r) ==
    /\ phase = "serving"
    /\ req[r].pc = "seq"
    /\ \E ok \in BOOLEAN :
         LET res == Sequence(entries, Payload(r), ok) IN
         /\ req' = [q \in Reqs |->
                      IF q = r
                      THEN [req[q] EXCEPT !.pc = "respond", !.idx = res.idx,
                                          !.err = res.err, !.calls = @ + 1]
                      ELSE IF req[q].pc = "respond" /\ req[q].err = NoErr
                      THEN [req[q] EXCEPT !.idx = res.idx]
                      ELSE req[q]]
         /\ entries' = res.entries
    /\ UNCHANGED <<phase, starts, signer, verifier, ctErr, cpFile, lastPub, l, samples, statsVars, lockVars>>

\* Line 114: idx, err := s.Sequence(ctx, b).
CallSequence(r) ==
    /\ phase = "serving"
    /\ req[r].pc = "seq"
    /\ \E ok \in BOOLEAN :
         LET res == Sequence(entries, Payload(r), ok) IN
         /\ req' = [req EXCEPT ![r] = [@ EXCEPT !.pc = "respond",
                                                !.idx = res.idx,
                                                !.err = res.err,
                                                !.calls = @ + 1]]
         /\ entries' = res.entries
    /\ UNCHANGED <<phase, starts, signer, verifier, ctErr, cpFile, lastPub, l, samples, statsVars, lockVars>>

\* Variant of Response: the error of Sequence is not checked.
ResponseIgnoringError(idx, err) == [status |-> 200, body |-> Decimal(idx) \o <<"\n">>]

\* Variant of Response: the 500 answer does not carry the error.
ResponseWithoutErrorText(idx, err) ==
    IF err # NoErr
    THEN [status |-> 500, body |-> <<"Failed to sequence entry">>]
    ELSE [status |-> 200, body |-> Decimal(idx) \o <<"\n">>]

\* Variant of Response: the index is written without the newline.
ResponseNoNewline(idx, err) ==
    IF err # NoErr
    THEN [status |-> 500, body |-> <<"Failed to sequence entry: ">> \o err.text]
    ELSE [status |-> 200, body |-> Decimal(idx)]

\* Lines 115-120: what the handler writes after Sequence returned (idx, err).
Response(idx, err) ==
    IF err # NoErr
    THEN [status |-> 500, body |-> <<"Failed to sequence entry: ">> \o err.text]
    ELSE [status |-> 200, body |-> Decimal(idx) \o <<"\n">>]

Respond(r) ==
    /\ phase = "serving"
    /\ req[r].pc = "respond"
    /\ req' = [req EXCEPT ![r] = [@ EXCEPT !.pc = "defer",
                                           !.resp = Response(req[r].idx, req[r].err)]]
    /\ UNCHANGED <<phase, starts, signer, verifier, ctErr, cpFile, entries, lastPub, l, samples, statsVars, lockVars>>

\* Variant of Deferred: the latency is recorded only on the success path.
DeferredOnlyOnSuccess(r) ==
    /\ phase = "serving"
    /\ req[r].pc = "defer"
    /\ \E d \in Durations :
         /\ l' = IF req[r].resp.status = 200 THEN Add(l, d) ELSE l
         /\ samples' = IF req[r].resp.status = 200
                        THEN samples (+) SetToBag({d}) ELSE samples
    /\ req' = [req EXCEPT ![r] = [@ EXCEPT !.pc = "done"]]
    /\ UNCHANGED <<phase, starts, signer, verifier, ctErr, cpFile, entries, lastPub, statsVars, lockVars>>

\* Line 106, run as the handler returns: l.Add(time.Since(n)).
Deferred(r) ==
    /\ phase = "serving"
    /\ req[r].pc = "defer"
    /\ \E d \in Durations :
         /\ l' = Add(l, d)
         /\ samples' = samples (+) SetToBag({d})
    /\ req' = [req EXCEPT ![r] = [@ EXCEPT !.pc = "done"]]
    /\ UNCHANGED <<phase, starts, signer, verifier, ctErr, cpFile, entries, lastPub, statsVars, lockVars>>

\* ------------------------------------------------------ storage engine
\* The engine integrates the sequenced entries: it reads the published tree
\* with ct() and, when entries were added since, publishes the new size and
\* root with nt().
Integrate ==
    /\ phase = "serving"
    /\ LET ct == currentTree(cpFile, verifier) IN
         /\ ct.err = NoErr
         /\ ct.size < Len(entries)
    /\ \E writeOK \in BOOLEAN :
         LET size == Len(entries)
             nt == newTree(cpFile, signer, size, RootHash(size), writeOK)
         IN /\ cpFile' = nt.file
            /\ lastPub' = Published(size, RootHash(size), nt.err)
    /\ UNCHANGED <<phase, starts, signer, verifier, ctErr, entries, req, l, samples, statsVars, lockVars>>

\* ------------------------------------------------------ Stats Reporter
\* uint64 subtraction a - b.  When b > a the result wraps to 2^64 + (a - b),
\* which is kept as the difference with the wrapped mark.
Sub64(a, b) == [wrapped |-> a < b, v |-> a - b]

\* Variant of pollStep: a failed call ends the loop.
pollStepReturnOnError(st, t, lat) ==
    IF t.err # NoErr
    THEN [st EXCEPT !.pc = "returned", !.t = NoTree, !.line = ErrorLine(t.err)]
    ELSE [st EXCEPT !.pc = "select",
                    !.t = NoTree,
                    !.lastSize = t.size,
                    !.okSize = t.size,
                    !.line = IF st.lastSize > 0
                             THEN InfoLine(t.size, Sub64(t.size, st.lastSize), lat)
                             ELSE @]

\* Variant of pollStep: lastSize is not updated after a successful call.
pollStepStaleLastSize(st, t, lat) ==
    IF t.err # NoErr
    THEN [st EXCEPT !.pc = "select", !.t = NoTree, !.line = ErrorLine(t.err)]
    ELSE [st EXCEPT !.pc = "select",
                    !.t = NoTree,
                    !.okSize = t.size,
                    !.line = IF st.lastSize > 0
                             THEN InfoLine(t.size, Sub64(t.size, st.lastSize), lat)
                             ELSE @]

\* Variant of pollStep: the operands of the subtraction are swapped.
pollStepSwapped(st, t, lat) ==
    IF t.err # NoErr
    THEN [st EXCEPT !.pc = "select", !.t = NoTree, !.line = ErrorLine(t.err)]
    ELSE [st EXCEPT !.pc = "select",
                    !.t = NoTree,
                    !.lastSize = t.size,
                    !.okSize = t.size,
                    !.line = IF st.lastSize > 0
                             THEN InfoLine(t.size, Sub64(st.lastSize, t.size), lat)
                             ELSE @]

\* printStats, lines 169-177: the body of the timer case after s() returned t,
\* with the latency summary lat, and back to the select (by continue at line
\* 171 or by the end of the case).  okSize is history.
pollStep(st, t, lat) ==
    IF t.err # NoErr
    THEN [st EXCEPT !.pc = "select", !.t = NoTree, !.line = ErrorLine(t.err)]
    ELSE [st EXCEPT !.pc = "select",
                    !.t = NoTree,
                    !.lastSize = t.size,
                    !.okSize = t.size,
                    !.line = IF st.lastSize > 0
                             THEN InfoLine(t.size, Sub64(t.size, st.lastSize), lat)
                             ELSE @]

\* printStats, lines 164-168: the timer case of the select is taken and s()
\* reads the checkpoint.  The timer may have fired before, or together with,
\* the context's Done.
PollCall ==
    /\ phase = "serving"
    /\ stats.pc = "select"
    /\ \E readOK \in BOOLEAN :
         LET t == readTree(cpFile, verifier, readOK)
         IN stats' = [stats EXCEPT !.pc = "called",
                                   !.t = [size |-> t.size, err |-> t.err]]
    /\ UNCHANGED <<phase, starts, signer, verifier, ctErr, cpFile, entries, lastPub, req, l,
                   samples, ctxDone, lockVars>>

\* printStats, lines 169-177: the rest of the timer case, with what s()
\* returned and, at line 175, the aggregator as it is by then; back to the
\* select.
PollReport ==
    /\ phase = "serving"
    /\ stats.pc = "called"
    /\ stats' = pollStep(stats, stats.t, String(l))
    /\ UNCHANGED <<phase, starts, signer, verifier, ctErr, cpFile, entries, lastPub, req, l,
                   samples, ctxDone, lockVars>>

\* printStats's parameter ctx becomes done: its caller cancels it.  main gives
\* printStats context.Background() (lines 85, 125), which is never done, so
\* this step is no step of the process; it is an input of printStats taken
\* alone (SpecReporter).
Cancel ==
    /\ phase = "serving"
    /\ ~ctxDone
    /\ ctxDone' = TRUE
    /\ UNCHANGED <<phase, starts, signer, verifier, ctErr, cpFile, entries, lastPub, req, l,
                   samples, stats, lockVars>>

\* Variant of StatsExit: the Done case goes round the loop again.
StatsExitContinue ==
    /\ phase = "serving"
    /\ stats.pc = "select"
    /\ ctxDone
    /\ UNCHANGED vars

\* printStats, lines 165-166: case <-ctx.Done(): return.
StatsExit ==
    /\ phase = "serving"
    /\ stats.pc = "select"
    /\ ctxDone
    /\ stats' = [stats EXCEPT !.pc = "returned"]
    /\ UNCHANGED <<phase, starts, signer, verifier, ctErr, cpFile, entries, lastPub, req, l,
                   samples, ctxDone, lockVars>>

Next ==
    \/ Start
    \/ InitCheckpoint
    \/ Serve
    \/ Crash
    \/ Corrupt
    \/ \E r \in Reqs : ReadBody(r)
    \/ \E r \in Reqs : CallSequence(r)
    \/ \E r \in Reqs : Respond(r)
    \/ \E r \in Reqs : Deferred(r)
    \/ Integrate

Spec == Init /\ [][Next]_vars

\* The process together with the Stats Reporter's ticks.  Its context is
\* context.Background(): the Done case of the select is never ready.
NextStats ==
    \/ Next
    \/ PollCall
    \/ PollReport

SpecStats == Init /\ [][NextStats]_vars

\* ------------------------------------------------------------ helpers
RECURSIVE SumBag(_)
\* The sum of the elements of a bag of numbers, with multiplicity.
SumBag(B) ==
    IF BagToSet(B) = {} THEN 0
    ELSE LET d == CHOOSE x \in BagToSet(B) : TRUE
             rest == [y \in {z \in BagToSet(B) : z # d \/ B[z] > 1} |->
                        IF y = d THEN B[y] - 1 ELSE B[y]]
         IN d + SumBag(rest)

MinOf(S) == CHOOSE x \in S : \A y \in S : x <= y
MaxOf(S) == CHOOSE x \in S : \A y \in S : x >= y

\* main() has loaded its keys and has not ended.
Running == phase \in {"started", "initialised", "serving"}

\* The error ct() returns when there is no checkpoint file.
ErrNoCheckpoint == Errorf("ReadCheckpoint: ", ErrNotExist)

\* Checkpoint files that exist: unparsable bytes, and notes over any body with
\* any signature or none.
ExistingFiles ==
    {Garbage} \cup
    {[exists |-> TRUE, body |-> [origin |-> o, size |-> n, hash |-> h], sig |-> k] :
        o \in {"Test-Betty", "Other"}, n \in 0..MaxReq,
        h \in {EmptyHash} \cup {RootHash(m) : m \in 0..MaxReq},
        k \in {DefaultKey, RotatedKey, NoKey}}

\* The requests the process has finished handling.
Completed == {r \in Reqs : req[r].pc = "done"}

\* ------------------------------------------------------------- claims

\* C1: at startup a checkpoint file that exists but fails parsing or signature
\* verification halts startup and is left as it is; it is never replaced by
\* the empty checkpoint.
C1_InvalidCheckpointHaltsStartup ==
    [][(/\ phase = "started"
        /\ cpFile.exists
        /\ currentTree(cpFile, verifier).err # NoErr
        /\ phase' # "down")
       => (cpFile' = cpFile /\ phase' = "exited")]_vars

\* C2: the size recorded in the stored checkpoint never decreases: no step
\* replaces a checkpoint text of size N by one of a smaller size.
C2_CheckpointSizeNeverDecreases ==
    [][(/\ cpFile.exists /\ cpFile.body # NoBody
        /\ cpFile'.exists /\ cpFile'.body # NoBody)
       => cpFile'.body.size >= cpFile.body.size]_vars

\* C3: a request is answered 200 with an index only after its own Sequence
\* call returned success: the call was made, returned no error, and the index
\* it returned is held by the engine's durable entries.
C3_OkOnlyAfterSequenced ==
    \A r \in Reqs :
        req[r].resp.status = 200 =>
            /\ req[r].calls = 1
            /\ req[r].err = NoErr
            /\ req[r].pc \in {"defer", "done"}
            /\ req[r].idx < Len(entries)

\* C3 witness: a request has been answered 200.
C3_Witness == \E r \in Reqs : req[r].resp.status = 200 /\ req[r].pc = "done"

\* C4: after at least one Add, the report shows the mean of the samples added,
\* the smallest sample as Min and the largest sample as Max.
C4_ReportReflectsSamples ==
    l.n > 0 =>
        String(l) = <<"[Mean: ", SumBag(samples) \div BagCardinality(samples),
                      " Min: ", MinOf(BagToSet(samples)),
                      " Max ", MaxOf(BagToSet(samples)), "]">>

\* C5: when startup found no checkpoint file and the signer and verifier are a
\* matching pair, startup has published the size-0 checkpoint with the
\* placeholder hash, and ct() now returns exactly that without error.
C5_FreshStartPublishesEmpty ==
    (phase = "initialised" /\ ctErr = ErrNoCheckpoint /\ signer = verifier) =>
        /\ lastPub = Published(0, EmptyHash, NoErr)
        /\ currentTree(cpFile, verifier) = [size |-> 0, hash |-> EmptyHash, err |-> NoErr]

\* C5 witness: startup on a fresh path with a matching pair has completed.
C5_Witness ==
    /\ phase = "initialised"
    /\ starts = 1
    /\ ctErr = ErrNoCheckpoint
    /\ signer = verifier
    /\ cpFile.exists

\* C6: after a successful nt(size, hash), with no later publish and a verifier
\* matching the signer, ct() returns that size and that hash and no error.
C6_PublishReadRoundTrip ==
    (Running /\ lastPub.called /\ lastPub.ok /\ signer = verifier) =>
        currentTree(cpFile, verifier) =
            [size |-> lastPub.size, hash |-> lastPub.hash, err |-> NoErr]

\* C6 witness: the engine has published a checkpoint of a size above 0.
C6_Witness ==
    /\ Running
    /\ lastPub.ok
    /\ lastPub.size > 0
    /\ lastPub.hash # EmptyHash
    /\ signer = verifier

\* C7 as stated: with no checkpoint file, ct() returns the error of the
\* underlying read unmodified.
C7_ReadErrorUnmodified ==
    (Running /\ ~cpFile.exists) =>
        currentTree(cpFile, verifier).err = ReadCheckpoint(cpFile).err

\* C7 as amended: with no checkpoint file, ct() returns a new error whose text
\* is "ReadCheckpoint: " followed by the text of the underlying read error; no
\* file that exists makes ct() return that error, so it can be told apart.
C7_ReadErrorPrefixed ==
    (Running /\ ~cpFile.exists) =>
        LET e == currentTree(cpFile, verifier).err IN
        /\ e = Errorf("ReadCheckpoint: ", ReadCheckpoint(cpFile).err)
        /\ e # NoErr
        /\ \A f \in ExistingFiles : currentTree(f, verifier).err # e

\* C7 witness: startup has called ct() with no checkpoint file and holds the
\* prefixed error.
C7_Witness == phase \in {"initialised", "exited"} /\ ctErr = ErrNoCheckpoint

\* C8: a request whose Sequence call failed is answered 500 with a body that
\* carries the error text and no index, and Sequence was called once for it.
C8_SequenceErrorAnswer ==
    \A r \in Reqs :
        /\ req[r].calls <= 1
        /\ (req[r].pc \in {"defer", "done"} /\ req[r].err # NoErr) =>
              /\ req[r].resp.status = 500
              /\ req[r].resp.body = <<"Failed to sequence entry: ">> \o req[r].err.text
              /\ \A i \in 0..Len(entries) : req[r].resp.body # Decimal(i) \o <<"\n">>
              /\ req[r].calls = 1

\* C8 witness: a request whose Sequence call failed has been answered.
C8_Witness ==
    \E r \in Reqs : req[r].pc = "done" /\ req[r].err # NoErr /\ req[r].calls = 1

\* C9: the aggregator's count equals the number of requests the handler has
\* finished, whatever their outcome.
C9_OneSamplePerRequest ==
    /\ l.n = Cardinality(Completed)
    /\ l.n = BagCardinality(samples)

\* C9 witness: a request whose body could not be read and a request whose
\* Sequence call failed have both finished.
C9_Witness ==
    \E r1 \in Reqs, r2 \in Reqs :
        /\ req[r1].pc = "done" /\ req[r1].calls = 0 /\ req[r1].resp.status = 500
        /\ req[r2].pc = "done" /\ req[r2].err # NoErr
        /\ l.n = 2

\* C10: the indices in 200 answers are pairwise distinct, and each is the
\* index at which the engine holds that request's own payload.
C10_DistinctIndices ==
    /\ \A r \in Reqs :
          req[r].resp.status = 200 =>
              \E i \in 1..Len(entries) :
                  /\ req[r].resp.body = Decimal(i - 1) \o <<"\n">>
                  /\ entries[i] = Payload(r)
    /\ \A r1 \in Reqs, r2 \in Reqs :
          (r1 # r2 /\ req[r1].resp.status = 200 /\ req[r2].resp.status = 200) =>
              req[r1].resp.body # req[r2].resp.body

\* C10 witness: two requests overlapped: the one sequenced later has already
\* been answered 200 while the one sequenced first has not answered yet.
C10_Witness ==
    \E r1 \in Reqs, r2 \in Reqs :
        /\ r1 # r2
        /\ req[r1].resp.status = 200
        /\ req[r2].pc = "respond" /\ req[r2].err = NoErr
        /\ req[r2].idx < req[r1].idx

\* C11: a request whose Sequence call succeeded is answered 200 with exactly
\* the decimal index and a newline; in the first run on a fresh log, a request
\* sequenced while no other request is in flight gets as index the number of
\* requests answered 200 before it (0, then 1, ...).
C11_OkBodyIsDecimalIndex ==
    /\ [](\A r \in Reqs :
            (req[r].pc \in {"defer", "done"} /\ req[r].calls = 1 /\ req[r].err = NoErr) =>
                req[r].resp = [status |-> 200, body |-> Decimal(req[r].idx) \o <<"\n">>])
    /\ [][\A r \in Reqs :
            (/\ starts = 1
             /\ req[r].pc = "seq" /\ req'[r].pc = "respond" /\ req'[r].err = NoErr
             /\ \A q \in Reqs \ {r} : req[q].pc \in {"idle", "defer", "done"})
            => req'[r].idx = Cardinality({q \in Reqs : req[q].resp.status = 200})]_vars

\* C11 witness: on a fresh log the first request has been answered "0\n" and the
\* second "1\n".
C11_Witness ==
    /\ starts = 1
    /\ req[1].pc = "done" /\ req[1].resp = [status |-> 200, body |-> <<"0", "\n">>]
    /\ req[2].pc = "done" /\ req[2].resp = [status |-> 200, body |-> <<"1", "\n">>]

\* C12: when main() is about to construct the storage engine and serve, the
\* checkpoint file holds a checkpoint that ct() verifies with the configured
\* verifier.
C12_ServesOnlyWithVerifiedCheckpoint ==
    phase = "initialised" =>
        currentTree(cpFile, verifier).err = NoErr

\* C13: the report is the "--" sentinel exactly when no Add has been applied.
C13_SentinelIffNoAdd ==
    (String(l) = <<"--">>) <=> (BagCardinality(samples) = 0)

\* C13 witness: after an Add the report is no longer the sentinel.
C13_Witness ==
    /\ BagCardinality(samples) > 0
    /\ String(l) # <<"--">>
    /\ Len(String(l)) = 7

\* C14: when a checkpoint that verifies with the configured verifier is on disk
\* as the process starts, startup publishes nothing and leaves the file as it
\* is, so ct() returns after startup what it returned before.
C14_ResumeKeepsCheckpoint ==
    [][(/\ phase = "started"
        /\ currentTree(cpFile, verifier).err = NoErr
        /\ phase' # "down")
       => (/\ phase' = "initialised"
           /\ cpFile' = cpFile
           /\ lastPub' = NoPub
           /\ currentTree(cpFile', verifier') = currentTree(cpFile, verifier))]_vars

\* ------------------------------------------- the aggregator under its mutex
\* The aggregator alone, statement by statement, with MaxAdders goroutines each
\* calling l.Add once (the handlers' deferred calls) and one goroutine calling
\* l.String again and again (printStats).
Adders == 1..MaxAdders
Reporter == MaxAdders + 1
Threads == Adders \cup {Reporter}

NoOut == <<>>
IdleThread == [pc |-> "idle", d |-> 0, tmp |-> 0, snap |-> NewLatency, out |-> NoOut]

procVars == <<phase, starts, signer, verifier, ctErr, cpFile, entries, lastPub, req, statsVars>>

InitLatency ==
    /\ phase = "down"
    /\ starts = 0
    /\ signer = NoKey
    /\ verifier = NoKey
    /\ ctErr = NoErr
    /\ cpFile = NoFile
    /\ entries = <<>>
    /\ lastPub = NoPub
    /\ req = [r \in Reqs |-> IdleReq]
    /\ stats = StatsOff
    /\ ctxDone = FALSE
    /\ l = NewLatency
    /\ samples = EmptyBag
    /\ mu = 0
    /\ thr = [t \in Threads |-> IdleThread]
    /\ clean = <<NewLatency>>

\* Variant of LatLock: the call returns without waiting for the mutex.
LatLockNoWait(t) ==
    /\ thr[t].pc = "idle"
    /\ mu' = t
    /\ IF t \in Adders
       THEN \E d \in Durations :
               /\ thr' = [thr EXCEPT ![t].pc = "loadTotal", ![t].d = d]
               /\ samples' = samples (+) SetToBag({d})
       ELSE /\ thr' = [thr EXCEPT ![t].pc = "checkN"]
            /\ samples' = samples
    /\ UNCHANGED <<procVars, l, clean>>

\* l.Lock(), lines 49 and 62: the caller (of l.Add with a duration d, or of
\* l.String) gets the mutex when it is free.
LatLock(t) ==
    /\ thr[t].pc = "idle"
    /\ mu = 0
    /\ mu' = t
    /\ IF t \in Adders
       THEN \E d \in Durations :
               /\ thr' = [thr EXCEPT ![t].pc = "loadTotal", ![t].d = d]
               /\ samples' = samples (+) SetToBag({d})
       ELSE /\ thr' = [thr EXCEPT ![t].pc = "checkN"]
            /\ samples' = samples
    /\ UNCHANGED <<procVars, l, clean>>

\* l.total += d, line 51: the load ...
AddLoadTotal(t) ==
    /\ thr[t].pc = "loadTotal"
    /\ thr' = [thr EXCEPT ![t].pc = "storeTotal", ![t].tmp = l.total]
    /\ UNCHANGED <<procVars, l, samples, mu, clean>>

\* ... and the store.
AddStoreTotal(t) ==
    /\ thr[t].pc = "storeTotal"
    /\ l' = [l EXCEPT !.total = thr[t].tmp + thr[t].d]
    /\ thr' = [thr EXCEPT ![t].pc = "loadN"]
    /\ UNCHANGED <<procVars, samples, mu, clean>>

\* l.n++, line 52: the load ...
AddLoadN(t) ==
    /\ thr[t].pc = "loadN"
    /\ thr' = [thr EXCEPT ![t].pc = "storeN", ![t].tmp = l.n]
    /\ UNCHANGED <<procVars, l, samples, mu, clean>>

\* ... and the store.
AddStoreN(t) ==
    /\ thr[t].pc = "storeN"
    /\ l' = [l EXCEPT !.n = thr[t].tmp + 1]
    /\ thr' = [thr EXCEPT ![t].pc = "min"]
    /\ UNCHANGED <<procVars, samples, mu, clean>>

\* if d < l.min { l.min = d }, lines 53-55.
AddMin(t) ==
    /\ thr[t].pc = "min"
    /\ l' = IF thr[t].d < l.min THEN [l EXCEPT !.min = thr[t].d] ELSE l
    /\ thr' = [thr EXCEPT ![t].pc = "max"]
    /\ UNCHANGED <<procVars, samples, mu, clean>>

\* if d > l.max { l.max = d }, lines 56-58.
AddMax(t) ==
    /\ thr[t].pc = "max"
    /\ l' = IF thr[t].d > l.max THEN [l EXCEPT !.max = thr[t].d] ELSE l
    /\ thr' = [thr EXCEPT ![t].pc = "unlock"]
    /\ UNCHANGED <<procVars, samples, mu, clean>>

\* if l.n == 0 { return "--" }, lines 64-66.
StringCheckN(t) ==
    /\ thr[t].pc = "checkN"
    /\ thr' = IF l.n = 0
              THEN [thr EXCEPT ![t].pc = "unlock", ![t].snap = l, ![t].out = <<"--">>]
              ELSE [thr EXCEPT ![t].pc = "format"]
    /\ UNCHANGED <<procVars, l, samples, mu, clean>>

\* return fmt.Sprintf(...), line 67: the fields are read and formatted.
StringFormat(t) ==
    /\ thr[t].pc = "format"
    /\ thr' = [thr EXCEPT ![t].pc = "unlock", ![t].snap = l,
                          ![t].out = <<"[Mean: ", l.total \div l.n, " Min: ", l.min,
                                       " Max ", l.max, "]">>]
    /\ UNCHANGED <<procVars, l, samples, mu, clean>>

\* The deferred l.Unlock(), lines 50 and 63, and the return.  An l.Add call is
\* over; the goroutine calling l.String may call it again.
LatUnlock(t) ==
    /\ thr[t].pc = "unlock"
    /\ mu' = 0
    /\ thr' = [thr EXCEPT ![t].pc = IF t \in Adders THEN "done" ELSE "idle"]
    /\ clean' = IF t \in Adders
                THEN Append(clean, Add(clean[Len(clean)], thr[t].d))
                ELSE clean
    /\ UNCHANGED <<procVars, l, samples>>

NextLatency ==
    \E t \in Threads :
        \/ LatLock(t)
        \/ AddLoadTotal(t)
        \/ AddStoreTotal(t)
        \/ AddLoadN(t)
        \/ AddStoreN(t)
        \/ AddMin(t)
        \/ AddMax(t)
        \/ StringCheckN(t)
        \/ StringFormat(t)
        \/ LatUnlock(t)

SpecLatency == InitLatency /\ [][NextLatency]_vars

\* C15: under any interleaving of l.Add and l.String calls, when no Add is in
\* progress the count is the number of Add calls made and the total the sum of
\* their durations (and l is what the Adds, applied one after another, give);
\* and every String call reads all four fields from one state between two
\* Adds and formats that state.
C15_NoLostOrPartialUpdate ==
    /\ (\A t \in Adders : thr[t].pc \in {"idle", "done"}) =>
           /\ l.n = BagCardinality(samples)
           /\ l.total = SumBag(samples)
           /\ l = clean[Len(clean)]
    /\ \A t \in Threads :
           thr[t].out # NoOut =>
               /\ \E i \in DOMAIN clean : thr[t].snap = clean[i]
               /\ thr[t].out = String(thr[t].snap)

C15_Witness ==
    /\ \A t \in Adders : thr[t].pc = "done"
    /\ l.n = MaxAdders
    /\ thr[Reporter].pc = "idle"
    /\ thr[Reporter].out # NoOut
    /\ thr[Reporter].snap.n = 1

\* ------------------------------------------------------ Stats Reporter claims
\* A step of printStats (not the death of the process) from where s() has
\* returned an error ...
PollFailed ==
    /\ stats.pc = "called"
    /\ stats' # stats
    /\ phase' # "down"
    /\ stats.t.err # NoErr
\* ... or a tree.
PollSucceeded ==
    /\ stats.pc = "called"
    /\ stats' # stats
    /\ phase' # "down"
    /\ stats.t.err = NoErr

\* printStats taken alone, running in a serving process that started on a
\* fresh path, with a context its caller may cancel.  The pair of keys may
\* match (polls succeed unless a read fails) or not (every poll fails).
InitReporter ==
    /\ phase = "serving"
    /\ starts = 1
    /\ signer \in {DefaultKey, RotatedKey}
    /\ verifier \in {DefaultKey, RotatedKey}
    /\ ctErr = ErrNoCheckpoint
    /\ cpFile = newTree(NoFile, signer, 0, EmptyHash, TRUE).file
    /\ entries = <<>>
    /\ lastPub = Published(0, EmptyHash, NoErr)
    /\ req = [r \in Reqs |-> IdleReq]
    /\ l = NewLatency
    /\ samples = EmptyBag
    /\ stats = StatsStarted
    /\ ctxDone = FALSE
    /\ mu = 0
    /\ thr = <<>>
    /\ clean = <<>>

NextReporter ==
    \/ \E r \in Reqs : ReadBody(r)
    \/ \E r \in Reqs : CallSequence(r)
    \/ \E r \in Reqs : Respond(r)
    \/ \E r \in Reqs : Deferred(r)
    \/ Integrate
    \/ PollCall
    \/ PollReport
    \/ Cancel
    \/ StatsExit

\* The goroutine is scheduled: it goes on through the timer case, and a select
\* whose Done case is ready again and again takes it (the select chooses among
\* its ready cases at random).
SpecReporter ==
    InitReporter /\ [][NextReporter]_vars /\ WF_vars(PollReport) /\ SF_vars(StatsExit)

\* C16: once the context of printStats is done, the loop eventually returns,
\* whether its polls were succeeding or failing, and a returned loop does
\* nothing more: it does not keep polling.
C16_CancelledReporterTerminates ==
    /\ ctxDone ~> (stats.pc = "returned")
    /\ [][stats.pc = "returned" => stats' = stats]_vars

C16_Witness ==
    /\ ctxDone
    /\ stats.pc = "returned"
    /\ stats.line.level = "error"
    /\ stats.okSize > 0

\* The last observed size is the size seen by the last successful poll.
LastSizeIsLastSuccess == stats.lastSize = IF stats.okSize < 0 THEN 0 ELSE stats.okSize

\* A failed poll is not fatal: the loop is back at its select in a serving
\* process (so it polls again on the next tick), an error line is logged,
\* lastSize and the serving state (requests, checkpoint, aggregator) are as
\* they were.
FailedPollNonFatal ==
    PollFailed =>
        /\ stats'.pc = "select"
        /\ phase' = "serving"
        /\ stats'.line = ErrorLine(stats.t.err)
        /\ stats'.lastSize = stats.lastSize
        /\ stats'.okSize = stats.okSize
        /\ <<phase, req, entries, cpFile, l, samples>>' =
               <<phase, req, entries, cpFile, l, samples>>

\* C17 as stated: a failed poll is not fatal, and every successful poll that
\* follows an earlier successful one measures (and logs) the growth against
\* the size that one saw.
C17_NextPollMeasuresAgainstLastSuccess ==
    /\ [][FailedPollNonFatal]_vars
    /\ []LastSizeIsLastSuccess
    /\ [][(PollSucceeded /\ stats.okSize >= 0) =>
            stats'.line = InfoLine(stats.t.size,
                                   Sub64(stats.t.size, stats.okSize),
                                   String(l))]_vars

\* C17: a failed Accessor call is not fatal: the loop is back at its select and
\* polls again, lastSize and the serving state are unchanged; the last observed
\* size is always the size seen by the last successful poll; and the next
\* successful poll measures and logs its growth against that size when that
\* size is greater than zero, and measures and logs nothing when it is zero or
\* when no poll has succeeded yet.
C17_FailedPollNonFatal ==
    /\ [][FailedPollNonFatal]_vars
    /\ []LastSizeIsLastSuccess
    /\ [][PollSucceeded =>
            /\ stats'.pc = "select"
            /\ stats.okSize > 0 =>
                   stats'.line = InfoLine(stats.t.size,
                                          Sub64(stats.t.size, stats.okSize),
                                          String(l))
            /\ stats.okSize <= 0 => stats'.line = stats.line]_vars

\* A poll has failed after a successful one, with the log grown in between.
C17_Witness ==
    /\ phase = "serving"
    /\ stats.pc = "select"
    /\ stats.line.level = "error"
    /\ stats.lastSize = 1
    /\ currentTree(cpFile, verifier).err = NoErr
    /\ currentTree(cpFile, verifier).size = 2

\* C18 as stated: every successful poll logs the growth and the latency summary
\* and then records the polled size.
C18_EverySuccessfulPollLogs ==
    [][PollSucceeded =>
        /\ stats'.lastSize = stats.t.size
        /\ stats'.line = InfoLine(stats.t.size,
                                  Sub64(stats.t.size, stats.lastSize),
                                  String(l))]_vars

\* C18: a successful poll logs the growth of the polled size over the last
\* observed size together with the latency summary as it is when the line is
\* logged, exactly when the last observed size is greater than zero, logs
\* nothing when it is zero, and in both cases records the polled size as the
\* last observed size.
C18_SuccessfulPollLogsWhenLastSizePositive ==
    [][PollSucceeded =>
        /\ stats'.lastSize = stats.t.size
        /\ stats.lastSize > 0 =>
               stats'.line = InfoLine(stats.t.size,
                                      Sub64(stats.t.size, stats.lastSize),
                                      String(l))
        /\ stats.lastSize = 0 => stats'.line = stats.line]_vars

\* A line logged with the size read before a publish and the summary read
\* after an Add.
C18_Witness ==
    /\ stats.pc = "select"
    /\ stats.line.level = "info"
    /\ stats.line.size = stats.lastSize
    /\ stats.line.added.v = 0
    /\ stats.line.lat = String(l)
    /\ l.n = 1
    /\ currentTree(cpFile, verifier).size > stats.lastSize

\* C19: no logged growth is a wrapped-around value: at every successful poll
\* where growth is computed the polled size is at least the last observed size.
C19_GrowthNeverWraps ==
    /\ [](stats.line.level = "info" =>
             (~stats.line.added.wrapped /\ stats.line.added.v >= 0))
    /\ [][(PollSucceeded /\ stats.lastSize > 0) =>
            stats.t.size >= stats.lastSize]_vars
    /\ [](stats.pc = "called" /\ stats.t.err = NoErr => stats.t.size >= stats.lastSize)

C19_Witness ==
    /\ stats.line.level = "info"
    /\ stats.line.size > stats.line.added.v
    /\ stats.line.added = [wrapped |-> FALSE, v |-> 1]

====
